---- MODULE Spec2Model ----
(***************************************************************************)
(* regex-simplifier: the pattern-to-English translator regexToEnglish of   *)
(* src/src/regexToEnglish.js, as a state machine over one call: argument   *)
(* validation and normalization, the special-case lookup, the scan loop    *)
(* (one step per loop iteration) and the clean-up.                         *)
(*                                                                         *)
(* JavaScript strings are TLA+ strings; indices are 0-based as in the      *)
(* code, and reading past the end of a string gives Undefined, which a     *)
(* template literal renders as the text "undefined".                       *)
(***************************************************************************)
EXTENDS Integers, Sequences, FiniteSets, TLC

VARIABLES
    input,        \* the argument regexPattern of the call
    pc,           \* position of the call: "call", "normalized", "scan", "returned", "thrown"
    pattern,      \* the local `pattern` (the normalized source)
    explanation,  \* the local `explanation` accumulated by the scan
    i,            \* the scan cursor
    result,       \* the returned string
    error,        \* the message of the thrown Error
    iterations,   \* the number of iterations of the scan loop run so far
    re,           \* testRegex: the RegExp object the caller holds and passes again
    fresh,        \* testRegex: the RegExp object made from a string argument
    regex,        \* testRegex: the local `regex`, naming one of the two objects
    sampleText,   \* testRegex: the argument sampleText
    results,      \* testRegex: the local `results`
    tpc           \* testRegex: position of the call

translateVars == <<input, pc, pattern, explanation, i, result, error, iterations>>
testVars == <<re, fresh, regex, sampleText, results, tpc>>
vars == <<translateVars, testVars>>

-----------------------------------------------------------------------------
(* Bounds of the model *)

\* every string over Alphabet of at most this many characters is an input
MaxLen == 3

\* the characters the enumerated inputs are built from
Alphabet == {"/", "g", "a", "\\", "[", "]", "{", "}", "(", ")", "*", "^", "$", " "}

-----------------------------------------------------------------------------
(* JavaScript string primitives *)

Undefined == "undefined"

\* s[k]
At(s, k) == IF k >= 0 /\ k < Len(s) THEN SubSeq(s, k + 1, k + 1) ELSE Undefined

\* s.substring(a, b) for 0 <= a <= b <= s.length
Substring(s, a, b) == SubSeq(s, a + 1, b)

\* s.endsWith(t)
EndsWith(s, t) == Len(s) >= Len(t) /\ SubSeq(s, Len(s) - Len(t) + 1, Len(s)) = t

\* s.startsWith(t)
StartsWith(s, t) == Len(s) >= Len(t) /\ SubSeq(s, 1, Len(t)) = t

\* s.indexOf(c, from) for a one-character c
IndexOf(s, c, from) ==
    LET hits == {k \in from..(Len(s) - 1) : At(s, k) = c}
    IN  IF hits = {} THEN -1 ELSE CHOOSE k \in hits : \A m \in hits : k <= m

\* s.lastIndexOf(c) for a one-character c
LastIndexOf(s, c) ==
    LET hits == {k \in 0..(Len(s) - 1) : At(s, k) = c}
    IN  IF hits = {} THEN -1 ELSE CHOOSE k \in hits : \A m \in hits : k >= m

\* s.includes(c)
Includes(s, c) == IndexOf(s, c, 0) # -1

-----------------------------------------------------------------------------
(* Argument values *)

\* A JavaScript value passed as regexPattern: its type tag, its text (the
\* string itself, or a RegExp's source) and its numeric value.
Value(k, t, n) == [kind |-> k, text |-> t, num |-> n]

StringValue(s) == Value("string", s, 0)
RegExpValue(src) == Value("regexp", src, 0)

\* !regexPattern : undefined, null, 0 and the empty string are falsy; objects
\* (RegExp objects included) and non-empty strings are truthy
Falsy(v) ==
    \/ v.kind \in {"undefined", "null"}
    \/ v.kind = "number" /\ v.num = 0
    \/ v.kind = "string" /\ v.text = ""

RequiredMessage == "Regex pattern is required"
TypeMessage == "Regex pattern must be a string or RegExp object"

-----------------------------------------------------------------------------
(* Normalization: pattern.replace(/^\/|\/[gimuy]*$/g, '') *)

FlagLetters == {"g", "i", "m", "u", "y"}

\* the position k at which \/[gimuy]*$ matches in s, searching from `from`:
\* a slash followed only by flag letters up to the end; -1 when there is none
TrailingMatch(s, from) ==
    LET hits == {k \in from..(Len(s) - 1) :
                    /\ At(s, k) = "/"
                    /\ \A m \in (k + 1)..(Len(s) - 1) : At(s, m) \in FlagLetters}
    IN  IF hits = {} THEN -1 ELSE CHOOSE k \in hits : \A m \in hits : k <= m

\* The global replace removes every match, left to right: at index 0 the first
\* alternative ^\/ takes a leading slash alone, then the second alternative
\* takes the first slash-plus-flags suffix that reaches the end of the string.
Normalize(s) ==
    LET lead  == IF At(s, 0) = "/" THEN 1 ELSE 0
        trail == TrailingMatch(s, lead)
        end   == IF trail = -1 THEN Len(s) ELSE trail
    IN  Substring(s, lead, end)

-----------------------------------------------------------------------------
(* The special-case table *)

\* Each recognizer is a regular expression over the source TEXT.  Entries 1,
\* 2 and 4 escape every metacharacter between ^ and $, so they accept exactly
\* one string; entry 3 leaves (...)? unescaped and escapes the final $, so it
\* accepts two strings ending in a dollar character; entry 5 is a prefix test.
EmailText == "\\b[A-Za-z0-9._%-+]+@[A-Za-z0-9.-]+\\.[A-Z|a-z]{2,}\\b"
SsnText == "\\d{3}-\\d{2}-\\d{4}"
ZipTexts == {"\\d{5}$", "\\d{5}-\\d{4}$"}
CardText == "\\d{4}[\\s-]?\\d{4}[\\s-]?\\d{4}[\\s-]?\\d{4}"
UrlPrefix == "https?:"

EmailExplanation == "Email address pattern"
SsnExplanation == "3 digits - 2 digits - 4 digits (SSN-like pattern)"
ZipExplanation == "5 digits optionally followed by dash and 4 more digits (ZIP code)"
CardExplanation == "Credit card number (4 groups of 4 digits with optional separators)"
UrlExplanation == "URL starting with http or https"

NoMatch == "<none>"

\* the explanation of the first entry whose recognizer tests true, or NoMatch
explanations(p) ==
    IF p = EmailText THEN EmailExplanation
    ELSE IF p = SsnText THEN SsnExplanation
    ELSE IF p \in ZipTexts THEN ZipExplanation
    ELSE IF p = CardText THEN CardExplanation
    ELSE IF StartsWith(p, UrlPrefix) THEN UrlExplanation
    ELSE NoMatch

-----------------------------------------------------------------------------
(* Helpers of the scan *)

\* charClass.split('-')[0] and the last element of the split: the text before
\* the first hyphen and the text after the last one
FirstPart(t, sep) == Substring(t, 0, IndexOf(t, sep, 0))
LastPart(t, sep) == Substring(t, LastIndexOf(t, sep) + 1, Len(t))

interpretCharacterClass(charClass) ==
    IF charClass = "a-z" THEN "lowercase letters"
    ELSE IF charClass = "A-Z" THEN "uppercase letters"
    ELSE IF charClass = "0-9" THEN "digits"
    ELSE IF charClass = "a-zA-Z" THEN "letters"
    ELSE IF charClass = "a-zA-Z0-9" THEN "letters and digits"
    ELSE IF charClass = "A-Za-z0-9" THEN "letters and digits"
    ELSE IF Includes(charClass, "-")
         THEN FirstPart(charClass, "-") \o " through " \o LastPart(charClass, "-")
    ELSE charClass

\* the loop of findMatchingParen from index k with the running count
RECURSIVE ParenLoop(_, _, _)
ParenLoop(p, k, count) ==
    IF k >= Len(p) THEN -1
    ELSE IF At(p, k) = "\\" THEN ParenLoop(p, k + 2, count)
    ELSE LET c == IF At(p, k) = "(" THEN count + 1
                  ELSE IF At(p, k) = ")" THEN count - 1
                  ELSE count
         IN  IF c = 0 THEN k ELSE ParenLoop(p, k + 1, c)

findMatchingParen(p, start) == ParenLoop(p, start + 1, 1)

\* the phrase of the inner switch on the character after a backslash
EscapePhrase(nextChar) ==
    CASE nextChar = "d" -> "digit"
      [] nextChar = "w" -> "word character (letter, digit, or underscore)"
      [] nextChar = "s" -> "whitespace character"
      [] nextChar = "b" -> "word boundary"
      [] nextChar = "D" -> "non-digit"
      [] nextChar = "W" -> "non-word character"
      [] nextChar = "S" -> "non-whitespace character"
      [] nextChar = "n" -> "newline"
      [] nextChar = "t" -> "tab"
      [] OTHER -> "literal " \o nextChar

\* the modifier text of a brace body: [min, max] = quantifier.split(',')
QuantifierPhrase(quantifier) ==
    IF Includes(quantifier, ",")
    THEN LET c1   == IndexOf(quantifier, ",", 0)
             min  == Substring(quantifier, 0, c1)
             c2   == IndexOf(quantifier, ",", c1 + 1)
             max  == Substring(quantifier, c1 + 1,
                               IF c2 = -1 THEN Len(quantifier) ELSE c2)
         IN  IF max = "" THEN " (" \o min \o " or more times)"
             ELSE " (" \o min \o " to " \o max \o " times)"
    ELSE " (exactly " \o quantifier \o " times)"

\* A token of the scan: the text appended to the explanation and the value of
\* the cursor when the switch is left (the loop's i++ follows).
Tok(text, at) == [text |-> text, at |-> at]

\* an escape that leaves the cursor on the backslash, so that the escaped
\* character is classified again on its own
EscapeTokenNoSkip(p, k) == Tok(EscapePhrase(At(p, k + 1)), k)

\* case '\\'
EscapeToken(p, k) == Tok(EscapePhrase(At(p, k + 1)), k + 1)

\* the closer of the span opened at k: pattern.indexOf(']', i), pattern.indexOf('}', i)
ClosingIndex(p, closer, k) == IndexOf(p, closer, k)

\* case '['
BracketToken(p, k) ==
    LET closingBracket == ClosingIndex(p, "]", k)
    IN  IF closingBracket # -1
        THEN Tok("character from set: "
                   \o interpretCharacterClass(Substring(p, k + 1, closingBracket)),
                 closingBracket)
        ELSE Tok("literal [", k)

\* case '{'
BraceToken(p, k) ==
    LET closingBrace == ClosingIndex(p, "}", k)
    IN  IF closingBrace # -1
        THEN Tok(QuantifierPhrase(Substring(p, k + 1, closingBrace)), closingBrace)
        ELSE Tok("literal {", k)

\* a '(' narrated as a group whether or not a closer was found
ParenTokenAlwaysGroup(p, k) == Tok("group: (", k)

\* a matched '(' that moves the cursor to its closer, as the spans do
ParenTokenJump(p, k) ==
    LET closingParen == findMatchingParen(p, k)
    IN  IF closingParen # -1 THEN Tok("group: (", closingParen) ELSE Tok("literal (", k)

\* case '('
ParenToken(p, k) ==
    IF findMatchingParen(p, k) # -1 THEN Tok("group: (", k) ELSE Tok("literal (", k)

\* the outer switch on pattern[i]
Token(p, k) ==
    LET char == At(p, k)
    IN  CASE char = "^" -> Tok("Start of string/line, then ", k)
          [] char = "$" -> Tok("end of string/line", k)
          [] char = "." -> Tok("any character", k)
          [] char = "*" -> Tok(" (zero or more times)", k)
          [] char = "+" -> Tok(" (one or more times)", k)
          [] char = "?" -> Tok(" (optional)", k)
          [] char = "\\" -> EscapeToken(p, k)
          [] char = "[" -> BracketToken(p, k)
          [] char = "{" -> BraceToken(p, k)
          [] char = "(" -> ParenToken(p, k)
          [] char = ")" -> Tok(")", k)
          [] char = "|" -> Tok(" OR ", k)
          [] OTHER -> Tok("literal " \o char, k)

Connector == ", then "

\* the characters before which the connector is withheld
NoConnectorBefore == {")", "*", "+", "?", "{", "$"}

\* the connector condition without the tests for a following quantifier
NeedsConnectorBeforeQuantifier(p, e, k) ==
    /\ k < Len(p)
    /\ ~EndsWith(e, " ")
    /\ ~EndsWith(e, "(")
    /\ At(p, k) \notin {")", "$"}

\* the connector condition without the test for an explanation ending in '('
NeedsConnectorAfterParen(p, e, k) ==
    /\ k < Len(p)
    /\ ~EndsWith(e, " ")
    /\ At(p, k) \notin NoConnectorBefore

\* "Add connecting words": the condition under which ", then " is appended,
\* e the explanation after the token and k the cursor after i++
NeedsConnector(p, e, k) ==
    /\ k < Len(p)
    /\ ~EndsWith(e, " ")
    /\ ~EndsWith(e, "(")
    /\ At(p, k) \notin NoConnectorBefore

\* the explanation after one loop iteration at cursor k
AfterIteration(p, e, k) ==
    LET t  == Token(p, k)
        e1 == e \o t.text
    IN  IF NeedsConnector(p, e1, t.at + 1) THEN e1 \o Connector ELSE e1

-----------------------------------------------------------------------------
(* Clean-up *)

StartPhrase == "Start of string/line, then "
EndPhrase == ", then end of string/line"

\* .replace(/, then $/, "")
DropTrailingConnector(e) ==
    IF EndsWith(e, Connector) THEN Substring(e, 0, Len(e) - Len(Connector)) ELSE e

\* .replace(/^Start of string\/line, then /, "Start of string/line, ")
SoftenStart(e) ==
    IF StartsWith(e, StartPhrase)
    THEN "Start of string/line, " \o Substring(e, Len(StartPhrase), Len(e))
    ELSE e

\* .replace(/, then end of string\/line$/, ", end of string/line")
SoftenEnd(e) ==
    IF EndsWith(e, EndPhrase)
    THEN Substring(e, 0, Len(e) - Len(EndPhrase)) \o ", end of string/line"
    ELSE e

WhiteSpace == {" ", "\t", "\n", "\r"}

\* .trim()
RECURSIVE TrimStart(_)
TrimStart(e) == IF e # "" /\ At(e, 0) \in WhiteSpace THEN TrimStart(Tail(e)) ELSE e

RECURSIVE TrimEnd(_)
TrimEnd(e) ==
    IF e # "" /\ At(e, Len(e) - 1) \in WhiteSpace
    THEN TrimEnd(Substring(e, 0, Len(e) - 1))
    ELSE e

Trim(e) == TrimEnd(TrimStart(e))

CleanUp(e) == Trim(SoftenEnd(SoftenStart(DropTrailingConnector(e))))

Fallback == "Complex regex pattern"

\* a return without the || fallback
OrFallbackDropped(e) == e

\* return explanation || "Complex regex pattern"
OrFallback(e) == IF e = "" THEN Fallback ELSE e

-----------------------------------------------------------------------------
(* The arguments the calls are made with *)

\* every string over Alphabet of exactly n characters
RECURSIVE StringsOfLen(_)
StringsOfLen(n) ==
    IF n = 0 THEN {""}
    ELSE {s \o c : s \in StringsOfLen(n - 1), c \in Alphabet}

Strings == UNION {StringsOfLen(n) : n \in 0..MaxLen}

\* longer sources: the idioms of the special-case table, bare and anchored,
\* and patterns exercising classes, groups, escapes and quantifiers
Samples ==
    { EmailText, SsnText, CardText, "\\d{5}$", "\\d{5}-\\d{4}$",
      "^\\d{3}-\\d{2}-\\d{4}$", "^\\d{5}(-\\d{4})?$", "https?:\\/\\/",
      "(abc", "(ab)", "a|b", "a*", "a+b?", "[a-z]+", "\\[abc\\]", "\\(a\\{",
      "[a\\]b]", "a{1\\}2}", "a b", "^a.$", "a{2,}", "a{2,5}", "\\d\\w\\s",
      "[A-Z]", "[0-9]", "[a-zA-Z]", "[A-Za-z]", "[a-zA-Z0-9]", "[A-Za-z0-9]",
      "[a-f]", "[abc]", "[-]", "[a-]", "[a-c-f]", "a{,}", "a{1,2,3}", "a{3}",
      "/a\\/b/gi", "a\\/", "a/", "/a", "/a/g", "a^*" }

\* sources of RegExp objects (a RegExp's source is never empty: the empty
\* pattern has the source "(?:)")
RegExpSources ==
    { "(?:)", "a", "a*", "[a-z]+", "(ab)", "a|b", "\\[abc\\]", "a\\/b", "\\/",
      SsnText, "^\\d{3}-\\d{2}-\\d{4}$", "^\\d{5}(-\\d{4})?$", "^https?:\\/\\/" }

Inputs ==
    {StringValue(s) : s \in Strings \cup Samples}
      \cup {RegExpValue(src) : src \in RegExpSources}
      \cup {Value("undefined", "", 0), Value("null", "", 0), Value("object", "", 0),
            Value("number", "", 0), Value("number", "", 5)}

NoResult == "<no result>"
NoError == "<no error>"

-----------------------------------------------------------------------------
(* testRegex: RegExp objects and the native matching of literal patterns *)

\* the longest sample text
MaxText == 2

TextAlphabet == {"a", "b"}

RECURSIVE TextsOfLen(_)
TextsOfLen(n) ==
    IF n = 0 THEN {""}
    ELSE {s \o c : s \in TextsOfLen(n - 1), c \in TextAlphabet}

SampleTexts == UNION {TextsOfLen(n) : n \in 0..MaxText}

\* A RegExp object whose pattern is the literal text `source` (the empty
\* source matches the empty string everywhere), its flags and its lastIndex.
RegExpObject(source, flags, lastIndex) ==
    [source |-> source, global |-> Includes(flags, "g"),
     sticky |-> Includes(flags, "y"), flags |-> flags, lastIndex |-> lastIndex]

\* the literal matches in text at index k
MatchAt(source, text, k) ==
    /\ k + Len(source) <= Len(text)
    /\ SubSeq(text, k + 1, k + Len(source)) = source

\* the index of the match the engine finds starting at k (only at k when
\* sticky), or -1
FindFrom(r, text, k) ==
    LET hits == {m \in k..Len(text) : MatchAt(r.source, text, m)}
    IN  IF r.sticky THEN (IF MatchAt(r.source, text, k) THEN k ELSE -1)
        ELSE IF hits = {} THEN -1
        ELSE CHOOSE m \in hits : \A n \in hits : m <= n

\* where a match is looked for: lastIndex counts only with the g or y flag
StartOf(r) == IF r.global \/ r.sticky THEN r.lastIndex ELSE 0

\* regex.exec(text): the index of the match, or -1 for null
ExecIndex(r, text) ==
    IF StartOf(r) > Len(text) THEN -1 ELSE FindFrom(r, text, StartOf(r))

\* the object after regex.exec(text) or regex.test(text): with the g or y flag
\* lastIndex moves past the match, or back to 0 when there is none
AfterExec(r, text) ==
    IF r.global \/ r.sticky
    THEN [r EXCEPT !.lastIndex =
             IF ExecIndex(r, text) = -1 THEN 0 ELSE ExecIndex(r, text) + Len(r.source)]
    ELSE r

\* the null of firstMatch and lastMatch
Null == [value |-> "", index |-> -1, length |-> -1]

MatchInfo(r, text) ==
    [value |-> r.source, index |-> ExecIndex(r, text), length |-> Len(r.source)]

NewResults(r, text) ==
    [pattern |-> r.source, flags |-> r.flags, sampleText |-> text,
     matches |-> <<>>, matchCount |-> 0, isMatch |-> FALSE,
     firstMatch |-> Null, lastMatch |-> Null, positions |-> <<>>]

\* the RegExp objects a caller may hold, as constructed
CallerRegExps ==
    {RegExpObject(src, f, 0) : src \in {"a", ""}, f \in {"", "g", "y", "gy"}}

\* options.flags || 'g'
FlagsOption(f) == IF f = "" THEN "g" ELSE f

\* no call of testRegex under way, no result yet
TestIdle ==
    /\ re = RegExpObject("a", "", 0)
    /\ fresh = RegExpObject("a", "g", 0)
    /\ regex = "shared"
    /\ sampleText = ""
    /\ results = NewResults(RegExpObject("a", "", 0), "")
    /\ tpc = "idle"

-----------------------------------------------------------------------------
(* The call *)

Init ==
    /\ input \in Inputs
    /\ pc = "call"
    /\ pattern = ""
    /\ explanation = ""
    /\ i = 0
    /\ result = NoResult
    /\ error = NoError
    /\ iterations = 0
    /\ TestIdle

\* the entry guards with the !regexPattern test left out
InputErrorTypeOnly(v) ==
    IF v.kind \in {"regexp", "string"} THEN NoError ELSE TypeMessage

\* the guards of the entry: the message of the Error thrown, or NoError
InputError(v) ==
    IF Falsy(v) THEN RequiredMessage
    ELSE IF v.kind \in {"regexp", "string"} THEN NoError
    ELSE TypeMessage

\* the source the accepted argument stands for
SourceOf(v) == IF v.kind = "regexp" THEN v.text ELSE Normalize(v.text)

\* lines 7-21: validation and normalization
Validate ==
    /\ pc = "call"
    /\ IF InputError(input) # NoError
       THEN /\ pc' = "thrown"
            /\ error' = InputError(input)
            /\ UNCHANGED pattern
       ELSE /\ pc' = "normalized"
            /\ pattern' = SourceOf(input)
            /\ UNCHANGED error
    /\ UNCHANGED <<input, explanation, i, result, iterations>>
    /\ UNCHANGED testVars

\* lines 24-56: the special-case lookup, then the start of the scan
Lookup ==
    /\ pc = "normalized"
    /\ IF explanations(pattern) # NoMatch
       THEN /\ pc' = "returned"
            /\ result' = explanations(pattern)
       ELSE /\ pc' = "scan"
            /\ UNCHANGED result
    /\ explanation' = ""
    /\ i' = 0
    /\ iterations' = 0
    /\ UNCHANGED <<input, pattern, error>>
    /\ UNCHANGED testVars

\* lines 58-188: one iteration of the while loop
ScanStep ==
    /\ pc = "scan"
    /\ i < Len(pattern)
    /\ explanation' = AfterIteration(pattern, explanation, i)
    /\ i' = Token(pattern, i).at + 1
    /\ iterations' = iterations + 1
    /\ UNCHANGED <<input, pc, pattern, result, error>>
    /\ UNCHANGED testVars

\* lines 190-197: the loop is left, the explanation cleaned up and returned
Finish ==
    /\ pc = "scan"
    /\ ~(i < Len(pattern))
    /\ pc' = "returned"
    /\ result' = OrFallback(CleanUp(explanation))
    /\ UNCHANGED <<input, pattern, explanation, i, error, iterations>>
    /\ UNCHANGED testVars

Next == Validate \/ Lookup \/ ScanStep \/ Finish

Spec == Init /\ [][Next]_vars

TypeOK ==
    /\ input \in Inputs
    /\ pc \in {"idle", "call", "normalized", "scan", "returned", "thrown"}
    /\ i \in 0..(Len(pattern) + 1)
    /\ iterations \in 0..Len(pattern)

-----------------------------------------------------------------------------
(* C1: every call that returns, returns a non-empty string: the curated     *)
(* description when the special-case table recognizes the source, else the  *)
(* cleaned-up narration when that is non-empty, else the fallback "Complex  *)
(* regex pattern" (as for the input string "/", whose source is empty).     *)
C1_OutputNonEmpty ==
    pc = "returned" =>
        /\ result # NoResult
        /\ Len(result) > 0
        /\ Trim(result) = result
        /\ \/ result \in {EmailExplanation, SsnExplanation, ZipExplanation,
                          CardExplanation, UrlExplanation}
           \/ explanation # "" /\ result = CleanUp(explanation)
           \/ explanation = "" /\ pattern = "" /\ result = Fallback
        /\ input = StringValue("/") => result = Fallback

\* the call with the string "/" has returned the fallback
C1_Witness ==
    /\ pc = "returned"
    /\ input = StringValue("/")
    /\ pattern = ""
    /\ result = Fallback

-----------------------------------------------------------------------------
(* C2: the call throws an input error exactly for an absent argument        *)
(* (undefined, null), the empty string, and a value that is neither a       *)
(* string nor a RegExp; it throws as its first step, with no lookup and no  *)
(* scan done, and never for a non-empty string or a RegExp object.          *)
Rejected(v) ==
    \/ v.kind \in {"undefined", "null"}
    \/ v.kind = "string" /\ v.text = ""
    \/ v.kind \notin {"string", "regexp"}

C2_InputErrors ==
    /\ pc = "thrown" =>
           /\ Rejected(input)
           /\ error \in {RequiredMessage, TypeMessage}
           /\ pattern = "" /\ explanation = "" /\ i = 0 /\ result = NoResult
    /\ pc \in {"normalized", "scan", "returned"} =>
           /\ ~Rejected(input)
           /\ error = NoError

\* a number has been rejected by the type test, with nothing scanned
C2_Witness ==
    /\ pc = "thrown"
    /\ input.kind = "number" /\ input.num = 5
    /\ error = TypeMessage

-----------------------------------------------------------------------------
(* C3: translating the RegExp whose source is ^\d{3}-\d{2}-\d{4}$ returns   *)
(* exactly the curated "3 digits - 2 digits - 4 digits (SSN-like pattern)" *)
(* description from the special-case table, instead of a token-by-token     *)
(* narration.                                                               *)
C3_SsnCurated ==
    (pc = "returned" /\ input = RegExpValue("^\\d{3}-\\d{2}-\\d{4}$")) =>
        result = SsnExplanation

-----------------------------------------------------------------------------
(* C4: a string of the form /body/flags is normalized to body, and every    *)
(* other string (one with only a leading or only a trailing slash, say) is  *)
(* used unchanged as the source.                                            *)

\* s is /body/flags: a leading slash and a later slash followed by flag
\* letters only
Wrapped(s) == At(s, 0) = "/" /\ TrailingMatch(s, 1) # -1

Body(s) == Substring(s, 1, TrailingMatch(s, 1))

\* C4: the source of a string argument is its body when it is /body/flags and
\* the string itself otherwise (the lone slash "/" is left out: it is read as
\* the wrapper of an empty body)
C4_NormalizeWrappedOnly ==
    (pc \in {"normalized", "scan", "returned"} /\ input.kind = "string"
       /\ input.text # "/") =>
        pattern = IF Wrapped(input.text) THEN Body(input.text) ELSE input.text

-----------------------------------------------------------------------------
(* C5: an opening '(', '[' or '{' met by the scan with no closer after it   *)
(* is narrated as "literal (", "literal [" or "literal {", the cursor moves *)
(* on by one, the scan goes on without an error, and the characters after   *)
(* it are narrated as usual ("(abc" gives '(' then the literals a, b, c).   *)
NoLater(p, k, c) == \A m \in (k + 1)..(Len(p) - 1) : At(p, m) # c

Unmatched(p, k) ==
    \/ At(p, k) = "(" /\ findMatchingParen(p, k) = -1
    \/ At(p, k) = "[" /\ NoLater(p, k, "]")
    \/ At(p, k) = "{" /\ NoLater(p, k, "}")

C5_UnmatchedStep ==
    (pc = "scan" /\ i < Len(pattern) /\ Unmatched(pattern, i)) =>
        LET e1 == explanation \o "literal " \o At(pattern, i)
        IN  /\ explanation' \in {e1, e1 \o Connector}
            /\ i' = i + 1
            /\ pc' = "scan"
            /\ error' = NoError

C5_UnmatchedResults ==
    pc = "returned" =>
        /\ pattern = "(abc" => result = "literal (literal a, then literal b, then literal c"
        /\ pattern = "(a" => result = "literal (literal a"
        /\ pattern = "[a" => result = "literal [, then literal a"
        /\ pattern = "{a" => result = "literal {, then literal a"
        /\ pattern = "((a)" => result = "literal (group: (literal a)"

\* C5: always, an opener without a closer is narrated as a literal in one step
\* of the scan, and the narration of the rest follows it
C5_UnmatchedLiteral == []C5_UnmatchedResults /\ [][C5_UnmatchedStep]_vars

\* "(abc" has been narrated to the end with its '(' as a literal
C5_Witness ==
    /\ pc = "returned"
    /\ pattern = "(abc"
    /\ Unmatched(pattern, 0)
    /\ result = "literal (literal a, then literal b, then literal c"

-----------------------------------------------------------------------------
(* C6: a backslash and the character after it are one token: the cursor     *)
(* moves on by 2, and \[ , \( and \{ at the cursor are narrated as "literal *)
(* [", "literal (" and "literal {" without opening a class, a group or a    *)
(* quantifier; \[abc\] gives both brackets and a, b, c as literals.         *)
C6_EscapeStep ==
    (pc = "scan" /\ i < Len(pattern) /\ At(pattern, i) = "\\") =>
        /\ i' = i + 2
        /\ At(pattern, i + 1) \in {"[", "(", "{"} =>
               LET e1 == explanation \o "literal " \o At(pattern, i + 1)
               IN  explanation' \in {e1, e1 \o Connector}

C6_EscapeResults ==
    pc = "returned" =>
        /\ pattern = "\\[abc\\]" =>
               result = "literal [, then literal a, then literal b, then literal c, then literal ]"
        /\ pattern = "\\[a]" => result = "literal [, then literal a, then literal ]"
        /\ pattern = "\\(a)" => result = "literal (literal a)"
        /\ pattern = "\\{a}" => result = "literal {, then literal a, then literal }"

\* C6: always, a backslash consumes the next character with it, and an escaped
\* opener is narrated as a literal
C6_EscapedOpeners == []C6_EscapeResults /\ [][C6_EscapeStep]_vars

\* \[abc\] has been narrated to the end with five literals
C6_Witness ==
    /\ pc = "returned"
    /\ pattern = "\\[abc\\]"
    /\ result = "literal [, then literal a, then literal b, then literal c, then literal ]"

-----------------------------------------------------------------------------
(* C7: a quantifier is attached to its subject: when '*', '+', '?' or a     *)
(* closed '{...}' follows a token, nothing is appended between the token's  *)
(* phrase and the modifier text, so no ", then " connector separates them;  *)
(* "a*" gives "literal a (zero or more times)" and "[a-z]+" gives           *)
(* "character from set: lowercase letters (one or more times)".             *)

\* a quantifier starts at k: one of * + ? or a brace with a closer after it
QuantifierAt(p, k) ==
    \/ At(p, k) \in {"*", "+", "?"}
    \/ At(p, k) = "{" /\ ~NoLater(p, k, "}")

\* the modifier text of the quantifier at k
Modifier(p, k) ==
    CASE At(p, k) = "*" -> " (zero or more times)"
      [] At(p, k) = "+" -> " (one or more times)"
      [] At(p, k) = "?" -> " (optional)"
      [] OTHER -> QuantifierPhrase(Substring(p, k + 1, IndexOf(p, "}", k)))

\* the step before a quantifier appends the token's phrase and nothing else;
\* the step on a quantifier appends its modifier first
C7_QuantifierStep ==
    (pc = "scan" /\ i < Len(pattern)) =>
        /\ QuantifierAt(pattern, i') =>
               explanation' = explanation \o Token(pattern, i).text
        /\ QuantifierAt(pattern, i) =>
               StartsWith(explanation', explanation \o Modifier(pattern, i))

C7_QuantifierResults ==
    pc = "returned" =>
        /\ pattern = "a*" => result = "literal a (zero or more times)"
        /\ pattern = "[a-z]+" =>
               result = "character from set: lowercase letters (one or more times)"
        /\ pattern = "a{2,}" => result = "literal a (2 or more times)"
        /\ pattern = "a{2,5}" => result = "literal a (2 to 5 times)"
        /\ pattern = "a{,}" => result = "literal a ( or more times)"
        /\ pattern = "a+b?" => result = "literal a (one or more times), then literal b (optional)"

-----------------------------------------------------------------------------
(* C8: the character-class interpreter maps a-z to "lowercase letters", A-Z *)
(* to "uppercase letters", 0-9 to "digits", a-zA-Z and A-Za-z to "letters", *)
(* a-zA-Z0-9 and A-Za-z0-9 to "letters and digits", any other text with a   *)
(* '-' to "X through Y", and text without '-' to itself.                    *)
ClaimedClassPhrase(t) ==
    CASE t = "a-z" -> "lowercase letters"
      [] t = "A-Z" -> "uppercase letters"
      [] t = "0-9" -> "digits"
      [] t \in {"a-zA-Z", "A-Za-z"} -> "letters"
      [] t \in {"a-zA-Z0-9", "A-Za-z0-9"} -> "letters and digits"
      [] OTHER -> IF Includes(t, "-")
                  THEN FirstPart(t, "-") \o " through " \o LastPart(t, "-")
                  ELSE t

C8_ClassStep ==
    (pc = "scan" /\ i < Len(pattern) /\ At(pattern, i) = "["
       /\ ~NoLater(pattern, i, "]")) =>
        StartsWith(explanation',
                   explanation \o "character from set: "
                     \o ClaimedClassPhrase(Substring(pattern, i + 1, IndexOf(pattern, "]", i))))

\* C8: every class met by the scan is narrated with the phrase the mapping
\* above gives for its inner text
C8_ClassPhrases == [][C8_ClassStep]_vars

-----------------------------------------------------------------------------
(* C9: the closer of a '[' or '{' span is found by the escape-aware scan:   *)
(* it is the first ']' or '}' after the opener that no backslash escapes,   *)
(* so an escaped closer inside the span does not end it.                    *)

\* the first index from k on holding `closer` outside an escape, or -1
RECURSIVE EscapeAwareIndex(_, _, _)
EscapeAwareIndex(p, closer, k) ==
    IF k >= Len(p) THEN -1
    ELSE IF At(p, k) = "\\" THEN EscapeAwareIndex(p, closer, k + 2)
    ELSE IF At(p, k) = closer THEN k
    ELSE EscapeAwareIndex(p, closer, k + 1)

CloserOf(c) == IF c = "[" THEN "]" ELSE "}"

C9_SpanStep ==
    (pc = "scan" /\ i < Len(pattern) /\ At(pattern, i) \in {"[", "{"}) =>
        LET closing == EscapeAwareIndex(pattern, CloserOf(At(pattern, i)), i + 1)
        IN  i' = (IF closing = -1 THEN i ELSE closing) + 1

\* C9: every '[' or '{' step moves the cursor past the escape-aware closer,
\* or by one when there is none
C9_EscapeAwareClosers == [][C9_SpanStep]_vars

-----------------------------------------------------------------------------
(* C10: after the fragment of a token, with at least one more character to  *)
(* come, the connector ", then " follows exactly when the next character is *)
(* none of ')', '*', '+', '?', '{', '$': also after '(' and after a literal *)
(* space.                                                                   *)
C10_ConnectorStep ==
    (pc = "scan" /\ i < Len(pattern) /\ i' < Len(pattern)) =>
        IF At(pattern, i') \in NoConnectorBefore
        THEN explanation' = explanation \o Token(pattern, i).text
        ELSE EndsWith(explanation', Connector)

\* C10: the connector follows every fragment whose next character is none of
\* the six, and only those
C10_ConnectorRule == [][C10_ConnectorStep]_vars

\* C10 as amended: the connector follows exactly when the next character is
\* none of ')', '*', '+', '?', '{', '$' and the explanation so far ends
\* neither in a space nor in '('; so it is also withheld after '^' and '|'
\* (their fragments end in a space), after a literal space and after every
\* '(' (group-opening or literal).
C10_AmendedStep ==
    (pc = "scan" /\ i < Len(pattern) /\ i' < Len(pattern)) =>
        LET e1 == explanation \o Token(pattern, i).text
            last == At(e1, Len(e1) - 1)
        IN  IF At(pattern, i') \notin NoConnectorBefore /\ last \notin {" ", "("}
            THEN explanation' = e1 \o Connector
            ELSE explanation' = e1

C10_AmendedResults ==
    pc = "returned" =>
        /\ pattern = "a b" => result = "literal a, then literal  literal b"
        /\ pattern = "(ab)" => result = "group: (literal a, then literal b)"
        /\ pattern = "a|b" => result = "literal a, then  OR literal b"
        /\ pattern = "^a.$" =>
               result = "Start of string/line, literal a, then any characterend of string/line"

\* C10 as amended: always, the connector is appended under exactly the
\* amended condition
C10_ConnectorRuleAmended == []C10_AmendedResults /\ [][C10_AmendedStep]_vars

\* in "a b" the literal space has been narrated, the literal b is next, and
\* no connector was appended
C10_Witness ==
    /\ pc = "scan"
    /\ pattern = "a b"
    /\ i = 2
    /\ At(pattern, i) \notin NoConnectorBefore
    /\ explanation = "literal a, then literal  "

-----------------------------------------------------------------------------
(* C11: over one translation the cursor never decreases and grows by at     *)
(* least 1 in every loop iteration; it moves by more than the 2 of an       *)
(* escape only when a '[' or '{' span with a found closer is consumed, and  *)
(* then lands just past that closer; a matched '(' moves it by 1; so no     *)
(* character of a consumed span is narrated again and the loop runs at most *)
(* length(source) times.                                                    *)

\* the cursor stands on a '[' or '{' that has a closer after it
SpanAt(p, k) ==
    \/ At(p, k) = "[" /\ ~NoLater(p, k, "]")
    \/ At(p, k) = "{" /\ ~NoLater(p, k, "}")

\* the first closer after the opener at k
FirstCloser(p, k) == IndexOf(p, CloserOf(At(p, k)), k + 1)

C11_CursorStep ==
    /\ i' >= i
    /\ (pc = "scan" /\ pc' = "scan") =>
           /\ i' >= i + 1
           /\ i' > i + 2 => SpanAt(pattern, i)
           /\ SpanAt(pattern, i) => i' = FirstCloser(pattern, i) + 1
           /\ At(pattern, i) = "(" => i' = i + 1
           /\ iterations' = iterations + 1

C11_CursorBounds ==
    /\ pc \in {"scan", "returned"} =>
           /\ iterations <= i
           /\ iterations <= Len(pattern)
           /\ i <= Len(pattern) + 1
    /\ (pc = "returned" /\ explanations(pattern) = NoMatch) => i >= Len(pattern)

\* C11: always, the cursor only moves forward, by the widths stated above, and
\* the number of loop iterations stays within the length of the source
C11_CursorInvariant == []C11_CursorBounds /\ [][C11_CursorStep]_vars

\* the class of "[a-z]+" has been consumed in the first iteration, the cursor
\* standing just past its closer
C11_Witness ==
    /\ pc = "scan"
    /\ pattern = "[a-z]+"
    /\ iterations = 1
    /\ i = 5

-----------------------------------------------------------------------------
(* testRegex *)

\* the object the local `regex` names
Cur == IF regex = "shared" THEN re ELSE fresh

\* an assignment to the object the local `regex` names
Store(r) ==
    IF regex = "shared"
    THEN re' = r /\ UNCHANGED fresh
    ELSE fresh' = r /\ UNCHANGED re

\* the pattern arguments of the calls: the caller's RegExp object, a string
\* (compiled with options.flags || 'g'), the empty string, null
PatternArgs ==
    {Value("regexp", "", 0), Value("null", "", 0), StringValue("")}
      \cup {StringValue(src) : src \in {"a"}}

\* no testRegex call has been made; regexToEnglish is not running
InitTest ==
    /\ input = Value("undefined", "", 0)
    /\ pc = "idle"
    /\ pattern = ""
    /\ explanation = ""
    /\ i = 0
    /\ result = NoResult
    /\ error = NoError
    /\ iterations = 0
    /\ re \in CallerRegExps
    /\ fresh = RegExpObject("a", "g", 0)
    /\ regex = "shared"
    /\ sampleText = ""
    /\ results = NewResults(re, "")
    /\ tpc = "idle"

\* between calls the caller assigns lastIndex of the RegExp object it holds
SetLastIndex(n) ==
    /\ tpc \in {"idle", "done", "thrown"}
    /\ re' = [re EXCEPT !.lastIndex = n]
    /\ UNCHANGED <<fresh, regex, sampleText, results, tpc>>
    /\ UNCHANGED translateVars

\* part_002 lines 8-43: the guards, the choice of `regex`, the new `results`
TestCall(arg, text, flagsOption) ==
    /\ tpc \in {"idle", "done", "thrown"}
    /\ sampleText' = text
    /\ IF Falsy(arg)
       THEN /\ tpc' = "thrown"
            /\ UNCHANGED <<re, fresh, regex, results>>
       ELSE IF arg.kind = "regexp"
       THEN /\ regex' = "shared"
            /\ results' = NewResults(re, text)
            /\ tpc' = "test"
            /\ UNCHANGED <<re, fresh>>
       ELSE /\ regex' = "fresh"
            /\ fresh' = RegExpObject(arg.text, FlagsOption(flagsOption), 0)
            /\ results' = NewResults(fresh', text)
            /\ tpc' = "test"
            /\ UNCHANGED re
    /\ UNCHANGED translateVars

\* part_002 lines 47-50: results.isMatch = regex.test(sampleText), then
\* regex.lastIndex = 0
TestMatch ==
    /\ tpc = "test"
    /\ results' = [results EXCEPT !.isMatch = ExecIndex(Cur, sampleText) # -1]
    /\ Store([AfterExec(Cur, sampleText) EXCEPT !.lastIndex = 0])
    /\ tpc' = "loop"
    /\ UNCHANGED <<regex, sampleText>>
    /\ UNCHANGED translateVars

\* part_002 lines 53-79: one evaluation of the while condition and, on a
\* match, one run of the loop body
ExecStep ==
    /\ tpc = "loop"
    /\ LET index == ExecIndex(Cur, sampleText)
           after == AfterExec(Cur, sampleText)
           matchInfo == MatchInfo(Cur, sampleText)
       IN  IF index = -1
           THEN /\ Store(after)
                /\ tpc' = "count"
                /\ UNCHANGED results
           ELSE /\ results' =
                      [results EXCEPT
                         !.matches = Append(@, matchInfo.value),
                         !.positions = Append(@, matchInfo),
                         !.firstMatch = IF @ = Null THEN matchInfo ELSE @,
                         !.lastMatch = matchInfo]
                /\ Store(IF matchInfo.length = 0
                         THEN [after EXCEPT !.lastIndex = index + 1]
                         ELSE after)
                /\ tpc' = IF Cur.global THEN "loop" ELSE "count"
    /\ UNCHANGED <<regex, sampleText>>
    /\ UNCHANGED translateVars

\* part_002 lines 81-99: results.matchCount = results.matches.length; return
TestReturn ==
    /\ tpc = "count"
    /\ results' = [results EXCEPT !.matchCount = Len(results.matches)]
    /\ tpc' = "done"
    /\ UNCHANGED <<re, fresh, regex, sampleText>>
    /\ UNCHANGED translateVars

\* successive calls of testRegex, the caller's RegExp object left as the calls
\* leave it
NextTest ==
    \/ \E arg \in PatternArgs, text \in SampleTexts, f \in {"", "g", "y", "i"} :
           TestCall(arg, text, f)
    \/ TestMatch
    \/ ExecStep
    \/ TestReturn

SpecTest == InitTest /\ [][NextTest]_vars

\* the same, with a caller that also assigns lastIndex between the calls
NextTestCaller == NextTest \/ \E n \in 0..(MaxText + 1) : SetLastIndex(n)

SpecTestCaller == InitTest /\ [][NextTestCaller]_vars

-----------------------------------------------------------------------------
(* C12: every result testRegex returns is self-consistent: isMatch is true  *)
(* exactly when matchCount > 0, matchCount is the length of matches and of  *)
(* positions, and firstMatch and lastMatch are the first and last entries   *)
(* of positions (null when there are none); also when the same RegExp       *)
(* object with the g or y flag, and so a carried-over or caller-set         *)
(* lastIndex, is passed to successive calls.                                *)
C12_ResultsConsistent ==
    tpc = "done" =>
        /\ results.isMatch <=> results.matchCount > 0
        /\ results.matchCount = Len(results.matches)
        /\ results.matchCount = Len(results.positions)
        /\ results.firstMatch =
               IF results.positions = <<>> THEN Null ELSE results.positions[1]
        /\ results.lastMatch =
               IF results.positions = <<>> THEN Null
               ELSE results.positions[Len(results.positions)]

====
